---- MODULE Spec2Model ----
(***************************************************************************)
(* Client-side session manager of the Event Tracker front end:             *)
(* localStorage token pair, the axios request/response interceptors of     *)
(* utils/api.js (attach token, refresh-and-retry on 401), the AuthContext  *)
(* provider (initAuth, login, register, logout) and the route guards that  *)
(* decide which page can issue calls.                                      *)
(*                                                                         *)
(* One action is one browser task: a user gesture, a page load, or the     *)
(* arrival of one network answer together with every promise continuation  *)
(* (interceptor, authAPI wrapper, context function) that runs before the   *)
(* next network wait.                                                      *)
(***************************************************************************)
EXTENDS Integers, FiniteSets, Sequences, Bags, TLC

\* ---------------------------------------------------------------- bounds
\* number of api-client calls that can be in flight at the same time
MaxReqs == 2
\* number of tokens the backend issues in one behaviour
MaxIssued == 3
\* number of setTimeout callbacks of AppContent pending at the same time
MaxTimers == 1
\* number of api-client calls in flight while the tutorial is followed
MaxTutorialReqs == 1
\* number of access tokens issued while the tutorial is followed
MaxTutorialIssued == 1
\* number of access tokens issued where every request is answered
MaxLiveIssued == 2
\* number of api-client calls in flight while the whole route table is
\* followed
MaxRouteReqs == 1
\* number of api-client calls in flight while the events page is followed
MaxEventsPageReqs == 1
\* number of access tokens issued while the events page is followed
MaxEventsPageIssued == 1
\* length of the search term and of the title, location and description
\* of an event
MaxLen == 1
\* the instants of the clock are 0..MaxTime
MaxTime == 1
\* number of events created in one behaviour
MaxEvents == 2
\* number of query parameters of one list request
MaxParams == 1

Users == {"u1", "u2"}

\* ---------------------------------------------------------------- values
\* JavaScript null: useState(null), localStorage.getItem of a missing key
null == "null"

\* localStorage.getItem(key) of a key that is not stored
NoTok == [kind |-> "absent", user |-> null, ver |-> 0]
\* the JavaScript value undefined (a field missing from a JSON body)
JsUndefined == [kind |-> "undefined", user |-> null, ver |-> 0]
\* the 9-character string "undefined"
StrUndefined == [kind |-> "'undefined'", user |-> null, ver |-> 0]
\* a token issued by the backend for user u; ver tells issued tokens apart
Jwt(u, v) == [kind |-> "jwt", user |-> u, ver |-> v]

\* String(x): what localStorage.setItem and a template literal make of x
String(x) == IF x.kind = "undefined" THEN StrUndefined ELSE x

\* no Authorization header on the request config
NoHeader == [kind |-> "none", tok |-> NoTok]
\* `Bearer ${token}`
Bearer(token) == [kind |-> "bearer", tok |-> String(token)]

\* JavaScript truthiness of a getItem result (null is falsy, strings are not)
Truthy(t) == t.kind # "absent"

\* ------------------------------------------------------- utils/api.js
getAccessToken(ls) == ls.access_token

getRefreshToken(ls) == ls.refresh_token

setTokensRefreshOnly(ls, accessToken, refreshToken) ==
  [ls EXCEPT !.refresh_token = String(refreshToken)]

setTokensAccessOnly(ls, accessToken, refreshToken) ==
  [ls EXCEPT !.access_token = String(accessToken)]

setTokens(ls, accessToken, refreshToken) ==
  [ls EXCEPT !.access_token = String(accessToken),
             !.refresh_token = String(refreshToken)]

clearTokensAccessOnly(ls) == [ls EXCEPT !.access_token = NoTok]

clearTokens(ls) ==
  [ls EXCEPT !.access_token = NoTok, !.refresh_token = NoTok]

isAuthenticatedAlways(ls) == TRUE

isAuthenticated(ls) == Truthy(getAccessToken(ls))

RequestInterceptorKeep(ls, header) == header

\* api.interceptors.request.use: the Authorization header of the config
\* that leaves the client, given the header the config already has
RequestInterceptor(ls, header) ==
  IF Truthy(getAccessToken(ls)) THEN Bearer(getAccessToken(ls)) ELSE header

ShouldRefreshNoFlag(status, retry) == status = 401

\* api.interceptors.response.use, line 61: does this error start a refresh
\* cycle (status 0 stands for an error without a response)
ShouldRefresh(status, retry) == status = 401 /\ ~retry

\* the outcomes of fetch(.../auth/refresh/) followed by .json():
\*   "ok"       2xx with body {access: <token>}
\*   "rejected" 401 with a JSON body without an access field; fetch does
\*              not reject on an HTTP error status and .json() parses it
\*   "error"    fetch rejects (network) or .json() throws (no JSON body)
RefreshOutcomes == {"ok", "rejected", "error"}

AccessOfMissing(outcome, issuedTok) == JsUndefined

\* const { access } = response.data
AccessOf(outcome, issuedTok) == IF outcome = "ok" THEN issuedTok ELSE JsUndefined

AfterRefreshNeverRetry(outcome) == "catch"

\* the try/catch of lines 66-85: which outcomes reach the retry
AfterRefresh(outcome) == IF outcome = "error" THEN "catch" ELSE "retry"

\* ------------------------------------------------- routing (App.jsx)
PathLogin == "/login"
PathDashboard == "/dashboard"
PathShared == "/events/shared/:shareId"
Paths == {PathLogin, PathDashboard, PathShared}

PathRegister == "/register"
PathEvents == "/events"
PathEventsNew == "/events/new"
PathEventDetail == "/events/:id"
PathRoot == "/"
PathOther == "*"

\* the paths of the <Routes> table, "*" standing for every unmatched url
AllPaths == Paths \cup {PathRegister, PathEvents, PathEventsNew,
                        PathEventDetail, PathRoot, PathOther}

\* the routes with a parameter, read by the page with useParams
ParamPaths == {PathShared, PathEventDetail}

\* the routes whose element is wrapped in <ProtectedRoute>
ProtectedPaths == {PathDashboard, PathEvents, PathEventsNew, PathEventDetail}

\* React elements: a page component, <LoadingSpinner />, <Navigate replace />
Page(name) == [kind |-> "page", arg |-> name]
LoadingSpinner == [kind |-> "spinner", arg |-> ""]
NavigateTo(path) == [kind |-> "navigate", arg |-> path]

ProtectedRouteOpen(usr, loading, children) ==
  IF loading THEN LoadingSpinner ELSE children

\* function ProtectedRoute({ children }); isAuthenticated is !!user
ProtectedRoute(usr, loading, children) ==
  IF loading THEN LoadingSpinner
  ELSE IF usr = null THEN NavigateTo(PathLogin)
  ELSE children

PublicRouteOpen(usr, loading, children) ==
  IF loading THEN LoadingSpinner ELSE children

\* function PublicRoute({ children })
PublicRoute(usr, loading, children) ==
  IF loading THEN LoadingSpinner
  ELSE IF usr # null THEN NavigateTo(PathDashboard)
  ELSE children

\* the <Routes> table: the element of the route that matches path
Routes(path, usr, loading) ==
  CASE path = PathLogin -> PublicRoute(usr, loading, Page("LoginPage"))
    [] path = PathRegister -> PublicRoute(usr, loading, Page("RegisterPage"))
    [] path = PathShared -> Page("PublicEventPage")
    [] path = PathDashboard ->
         ProtectedRoute(usr, loading, Page("DashboardPage"))
    [] path = PathEvents -> ProtectedRoute(usr, loading, Page("EventsPage"))
    [] path = PathEventsNew ->
         ProtectedRoute(usr, loading, Page("CreateEventPage"))
    [] path = PathEventDetail ->
         ProtectedRoute(usr, loading, Page("EventDetailPage"))
    [] OTHER -> NavigateTo(PathDashboard)

\* what AppContent renders in <main> for the url path
AppContent(path, usr, loading) ==
  IF loading THEN LoadingSpinner ELSE Routes(path, usr, loading)

\* ProtectedRoute / PublicRoute: the path shown once the guards have run
\* (every <Navigate replace /> followed)
RECURSIVE Route(_, _, _)
Route(path, usr, loading) ==
  LET element == AppContent(path, usr, loading) IN
  IF element.kind = "navigate" THEN Route(element.arg, usr, loading)
  ELSE path

\* ------------------------------------------- tutorial (Tutorial.jsx)
\* the ids of the entries of the tutorialSteps array
tutorialSteps ==
  <<"welcome", "dashboard", "create-event", "navigation", "events-list",
    "complete">>

\* the string 'true' stored by localStorage.setItem(key, 'true')
StrTrue == [kind |-> "'true'", user |-> null, ver |-> 0]

\* useState(false) of AppContent, useState(0) of Tutorial, no timer set;
\* opened tells what made showTutorial true: "timer" or "button"
TutorialMounted ==
  [showTutorial |-> FALSE, currentStep |-> 0, timers |-> 0,
   opened |-> "none"]

\* the stored completion status as the effect of AppContent reads it
TutorialSeen(ls) ==
  Truthy(ls.tutorial_completed) \/ Truthy(ls.tutorial_skipped)

\* AppContent after a render in which the context went from
\* (wasAuth, wasLoading) to (isAuth, loading): the effect with dependencies
\* [isAuthenticated, isLoading] sets a timer; while isLoading the spinner
\* replaces the tree, so Tutorial is unmounted and its step state is lost
AppContentEffect(t, wasAuth, wasLoading, isAuth, loading, ls) ==
  LET ran == <<wasAuth, wasLoading>> # <<isAuth, loading>>
      schedule == ran /\ isAuth /\ ~loading /\ ~TutorialSeen(ls)
  IN [t EXCEPT !.timers = IF schedule THEN @ + 1 ELSE @,
               !.currentStep = IF loading THEN 0 ELSE @]

\* --------------------------------------------- events page (EventsPage.jsx)
\* strings are sequences of characters over a small alphabet with one
\* letter in both cases
Alphabet == {"a", "A", "b"}

\* the strings of at most n characters
Words(n) == UNION {[1..k -> Alphabet] : k \in 0..n}

\* the instants a Date can hold
Instants == 0..MaxTime

toLowerCaseKeep(s) == s

\* String.prototype.toLowerCase
toLowerCase(s) == [i \in 1..Len(s) |-> IF s[i] = "A" THEN "a" ELSE s[i]]

\* String.prototype.includes
includes(s, t) ==
  \E i \in 1..(Len(s) - Len(t) + 1) : SubSeq(s, i, i + Len(t) - 1) = t

\* isAfter / isBefore of date-fns
isAfter(date, dateToCompare) == date > dateToCompare
isBefore(date, dateToCompare) == date < dateToCompare

\* the events the backend can send; a missing description (null) is falsy
\* like the empty string, which stands for both
EventPool ==
  [title : Words(MaxLen), location : Words(MaxLen),
   description : Words(MaxLen), date_time : Instants]

\* the lists fetchEvents can load; Array.filter tests every event on its own
EventLists == {<<>>} \cup {<<e>> : e \in EventPool}

\* the test of the callback of events.filter, lines 74-89
matches(event, filter, searchTerm, now) ==
  LET eventDate == event.date_time
      matchesFilter ==
        IF filter = "upcoming" THEN isAfter(eventDate, now)
        ELSE IF filter = "past" THEN isBefore(eventDate, now)
        ELSE TRUE
      matchesSearch ==
        \/ searchTerm = <<>>
        \/ includes(toLowerCase(event.title), toLowerCase(searchTerm))
        \/ includes(toLowerCase(event.location), toLowerCase(searchTerm))
        \/ /\ event.description # <<>>
           /\ includes(toLowerCase(event.description),
                       toLowerCase(searchTerm))
  IN matchesFilter /\ matchesSearch

\* const filteredEvents = useMemo(...), computed at the instant now
filteredEvents(events, filter, searchTerm, now) ==
  SelectSeq(events, LAMBDA event : matches(event, filter, searchTerm, now))

\* EventsPage as mounted: the useState initial values, memo computed
EventsPageMounted ==
  [events |-> <<>>, loading |-> TRUE, filter |-> "all", searchTerm |-> <<>>,
   now |-> 0, filteredEvents |-> <<>>]

\* the page after a render in which events, filter or searchTerm changed:
\* the memo is computed again, at the instant now
Rendered(pg, now) ==
  [pg EXCEPT !.now = now,
             !.filteredEvents =
                filteredEvents(pg.events, pg.filter, pg.searchTerm, now)]

\* ------------------------------------- backend: events and share links
\* ids of the events, in creation order; MissingId is an id never given
EventIds == 1..MaxEvents
MissingId == 0

\* the share_id column of an event without a share link (NULL)
NoShareId == [len |-> 0, chars |-> "null", n |-> 0]

\* the slot of an id without an event (not created yet, or deleted)
NoEvent == [owner |-> null, title |-> <<>>, date_time |-> 0,
            share_id |-> NoShareId]

StoreTitles == {<<"a">>, <<"A", "b">>}

\* the Event Store before any request
StoreEmpty ==
  [events |-> [id \in EventIds |-> NoEvent], created |-> 0, links |-> {},
   last |-> [op |-> "none", who |-> null, id |-> MissingId, arg |-> <<>>,
             response |-> [status |-> "none", body |-> <<>>],
             lookup |-> FALSE]]

\* responses
Ok(body) == [status |-> "OK", body |-> body]
NotFound == [status |-> "NotFound", body |-> <<>>]
Unauthenticated == [status |-> "Unauthenticated", body |-> <<>>]
Fault == [status |-> "Fault", body |-> <<>>]

\* the ids of the stored events
Existing(events) == {id \in EventIds : events[id] # NoEvent}

OwnsAny(events, identity, id) ==
  identity # null /\ id \in Existing(events)

\* ownership scoping: the event id exists and identity owns it
Owns(events, identity, id) ==
  identity # null /\ id \in Existing(events) /\ events[id].owner = identity

\* the events of ids as the list endpoint returns them
Listed(events, ids) == [id \in ids |-> events[id]]

\* the filter keys of the allow-list
allowed_filters ==
  {"user", "date_time__gte", "date_time__lte", "title__icontains"}

\* the lookups the model of the ORM knows; any other key raises FieldError
KnownLookups == allowed_filters \cup {"share_id__isnull"}

safe_filtersAll(filters) == filters

\* safe_filters = {k: v for k, v in filters.items() if k in allowed_filters}
safe_filters(filters) == {kv \in filters : kv[1] \in allowed_filters}

\* does the event e pass the lookup key = value
Lookup(e, key, value) ==
  CASE key = "user" -> e.owner = value
    [] key = "date_time__gte" -> e.date_time >= value
    [] key = "date_time__lte" -> e.date_time <= value
    [] key = "title__icontains" ->
         includes(toLowerCase(e.title), toLowerCase(value))
    [] key = "share_id__isnull" -> (e.share_id = NoShareId) = value

\* queryset = Event.objects.filter(**safe_filters): the stored events
\* that pass every filter kept, "user" being one of the keys, or Fault
\* when a key is no lookup of Event
EventsQuery(events, filters) ==
  LET safe == safe_filters(filters) IN
  IF \E kv \in safe : kv[1] \notin KnownLookups THEN Fault
  ELSE Ok(Listed(events,
                 {id \in Existing(events) :
                    \A kv \in safe : Lookup(events[id], kv[1], kv[2])}))

\* the query parameters a client can put on a request
FilterPairs ==
  ({"user"} \X {"u2"})
  \cup ({"date_time__gte"} \X {1})
  \cup ({"title__icontains"} \X {<<"a">>})
  \cup ({"share_id__isnull"} \X {TRUE})
  \cup ({"owner__password"} \X {<<"a">>})

\* the parameter sets with at most n parameters, one value for a key
RECURSIVE ParamSets(_)
ParamSets(n) ==
  IF n = 0 THEN {{}}
  ELSE LET smaller == ParamSets(n - 1) IN
       smaller \cup
       {ps \cup {kv} : ps \in smaller, kv \in FilterPairs}

ClientParams ==
  {ps \in ParamSets(MaxParams) :
     \A kv1, kv2 \in ps : kv1[1] = kv2[1] => kv1 = kv2}

listAll(events, identity, params) ==
  IF identity = null THEN Unauthenticated
  ELSE EventsQuery(events, params)

\* list(identity) with the query parameters of the request: the filter
\* parameters go through the allow-list before they are applied, and of
\* the events found only those of identity are returned
list(events, identity, params) ==
  IF identity = null THEN Unauthenticated
  ELSE LET found == EventsQuery(events, params) IN
       IF found.status # "OK" THEN found
       ELSE Ok(Listed(events, {id \in DOMAIN found.body :
                                 Owns(events, identity, id)}))

\* get(identity, eventId)
get(events, identity, id) ==
  IF identity = null THEN Unauthenticated
  ELSE IF Owns(events, identity, id) THEN Ok(events[id])
  ELSE NotFound

\* create(identity, ...): the event gets the id newId
create(events, identity, newId, title, date_time) ==
  IF identity = null THEN [response |-> Unauthenticated, events |-> events]
  ELSE LET e == [owner |-> identity, title |-> title,
                 date_time |-> date_time, share_id |-> NoShareId]
       IN [response |-> Ok(e), events |-> [events EXCEPT ![newId] = e]]

\* update(identity, eventId, ...)
update(events, identity, id, title) ==
  IF identity = null THEN [response |-> Unauthenticated, events |-> events]
  ELSE IF Owns(events, identity, id)
  THEN LET e == [events[id] EXCEPT !.title = title]
       IN [response |-> Ok(e), events |-> [events EXCEPT ![id] = e]]
  ELSE [response |-> NotFound, events |-> events]

\* delete(identity, eventId)
delete(events, identity, id) ==
  IF identity = null THEN [response |-> Unauthenticated, events |-> events]
  ELSE IF Owns(events, identity, id)
  THEN [response |-> Ok(<<>>), events |-> [events EXCEPT ![id] = NoEvent]]
  ELSE [response |-> NotFound, events |-> events]

\* length of a share identifier (a UUID in its text form)
UuidLength == 36

\* share identifiers as a client can send them: the length of the text,
\* the kind of its characters ("uuid": hex digits and dashes in the UUID
\* places) and the number n that tells identifiers apart
Uuid(n) == [len |-> UuidLength, chars |-> "uuid", n |-> n]

ShareInputs ==
  {Uuid(n) : n \in 0..MaxEvents}
  \cup {[len |-> UuidLength - 1, chars |-> "uuid", n |-> 1],
        [len |-> UuidLength, chars |-> "other", n |-> 1],
        [len |-> 3, chars |-> "../", n |-> 0]}

IsValidShareIdAny(shareId) == TRUE

\* share_id format validation (36-character UUID)
IsValidShareId(shareId) ==
  shareId.len = UuidLength /\ shareId.chars = "uuid"

\* generate(identity, eventId): the identifier of an event is stable; an
\* event without one gets the fresh identifier fresh
generate(events, identity, id, fresh) ==
  IF identity = null THEN [response |-> Unauthenticated, events |-> events]
  ELSE IF ~Owns(events, identity, id)
  THEN [response |-> NotFound, events |-> events]
  ELSE IF events[id].share_id # NoShareId
  THEN [response |-> Ok(events[id].share_id), events |-> events]
  ELSE [response |-> Ok(fresh),
        events |-> [events EXCEPT ![id].share_id = fresh]]

\* the display name of a user
DisplayName(u) == <<"name of", u>>

PublicFieldsStale(e) ==
  [title |-> <<>>, date_time |-> e.date_time,
   owner_name |-> DisplayName(e.owner)]

\* the public-safe projection of an event
PublicFields(e) ==
  [title |-> e.title, date_time |-> e.date_time,
   owner_name |-> DisplayName(e.owner)]

SharedAsFirst(events, shareId) ==
  {id \in Existing(events) :
     /\ events[id].share_id # NoShareId
     /\ \A other \in Existing(events) :
          events[other].share_id # NoShareId => id <= other}

\* the storage lookup of resolve: the events stored under shareId
SharedAs(events, shareId) ==
  {id \in Existing(events) : events[id].share_id = shareId}

\* resolve(shareId): no identity; lookup tells whether storage was read
resolve(events, shareId) ==
  IF ~IsValidShareId(shareId)
  THEN [response |-> NotFound, lookup |-> FALSE]
  ELSE LET found == SharedAs(events, shareId) IN
       IF found = {} THEN [response |-> NotFound, lookup |-> TRUE]
       ELSE [response |-> Ok(PublicFields(events[CHOOSE id \in found : TRUE])),
             lookup |-> TRUE]

\* ---------------------------------------------------------------- state
VARIABLES
  localStorage,  \* [access_token, refresh_token, tutorial_completed,
                 \*  tutorial_skipped]
  user,          \* AuthContext user, null or a user
  isLoading,     \* AuthContext isLoading
  href,          \* path the router shows
  redirect,      \* window.location.href = '/login' assigned, load pending
  initAuth,      \* the mount effect: [pc, token, res]
  req,           \* the api-client calls in flight, a bag of records
  issued,        \* backend: number of tokens issued so far
  last,          \* the step that produced this state: [op, rq], rq the
                 \* call that settled in it (IdleReq when none did)
  tut,           \* AppContent showTutorial, Tutorial currentStep and the
                 \* setTimeout callbacks not yet run
  page,          \* EventsPage: events, loading, filter, searchTerm, the
                 \* memoised filteredEvents and the instant it was computed
  store,         \* backend: the Event Store, the share links generated
                 \* and the last request with its response
  view           \* useState of the page the router shows: [loaded, busy]

vars == <<localStorage, user, isLoading, href, redirect, initAuth, req, issued,
          last, tut, page, store, view>>

\* what <main> shows
Shown == AppContent(href, user, isLoading)

IdleReq ==
  [pc |-> "idle", kind |-> "data", who |-> null, retry |-> FALSE,
   Authorization |-> NoHeader, stored |-> NoTok, first |-> NoHeader,
   refreshToken |-> NoTok, access |-> NoTok, refreshRes |-> "none",
   nRefresh |-> 0, nRetry |-> 0, result |-> "pending", live |-> FALSE]

\* the calls in flight (the calls are interchangeable: req is a bag)
InFlight == BagToSet(req)

\* the client has room for one more call
Free == BagCardinality(req) < MaxReqs

\* req with one more copy of the call rq
Add(bag, rq) == bag (+) SetToBag({rq})

\* req with one copy of the call rq taken out
Remove(bag, rq) == bag (-) SetToBag({rq})

\* the calls whose continuation sets the state of the page that sent them:
\* GET /events/ (fetchEvents), GET /events/:id/ (fetchEvent), POST /events/
\* (handleSubmit), DELETE /events/:id/ (handleDelete); "data" is every
\* other call of a page (dashboard stats, public event, share link, edit)
PageKinds == {"events", "detail", "create", "delete"}

\* api(config): the request interceptor runs and the request is sent; live
\* tells that the component awaiting the call is mounted
Dispatched(kind, who, ls) ==
  LET h == RequestInterceptor(ls, NoHeader) IN
  [IdleReq EXCEPT !.pc = "sent", !.kind = kind, !.who = who,
                  !.Authorization = h, !.first = h,
                  !.stored = getAccessToken(ls),
                  !.live = kind \in PageKinds]

\* useState of a page that has just mounted: nothing fetched (loading is
\* true, event is null, events is []), no submit or delete under way
Fresh == [loaded |-> FALSE, busy |-> FALSE]

\* the call a page sends from its mount effect, "none" when it has none
MountCall(element) ==
  CASE element = Page("DashboardPage") -> "data"
    [] element = Page("PublicEventPage") -> "data"
    [] element = Page("EventsPage") -> "events"
    [] element = Page("EventDetailPage") -> "detail"
    [] OTHER -> "none"

\* the calls of bag once the page that awaits them is unmounted: they stay
\* in flight, their continuations set the state of no mounted component
Unmounted(bag) ==
  LET dead(rq) == [rq EXCEPT !.live = FALSE] IN
  [r \in {dead(rq) : rq \in BagToSet(bag)} |->
     CopiesIn(r, bag) + CopiesIn([r EXCEPT !.live = TRUE], bag)]

\* React commits the render of a step that left bag in flight, v as the
\* state of the page and pg as the state of EventsPage; via is the path the
\* step navigated to (the path shown when it did not navigate). When <main>
\* shows another element, or the router left the route shown and a guard
\* led back to it, the old page is unmounted and the new one runs its mount
\* effect; refetch tells that the parameter of the url changed under the
\* mounted page (effect of dependencies [id] or [shareId])
Commit(bag, v, pg, via, refetch) ==
  LET element == AppContent(href', user', isLoading')
      remount == element # Shown \/ (element.kind = "page" /\ via # href)
      call == IF remount THEN MountCall(element)
              ELSE IF refetch THEN MountCall(element) ELSE "none"
      left == IF remount THEN Unmounted(bag) ELSE bag
  IN
  /\ req' = IF call = "none" THEN left
            ELSE Add(left, Dispatched(call, null, localStorage'))
  /\ view' = IF remount THEN Fresh ELSE v
  /\ page' = IF remount THEN EventsPageMounted ELSE pg
  /\ BagCardinality(req') <= MaxReqs

\* the app is opened at one of urls in a browser without stored tokens
InitAt(urls) ==
  /\ localStorage = [access_token |-> NoTok, refresh_token |-> NoTok,
                     tutorial_completed |-> NoTok,
                     tutorial_skipped |-> NoTok]
  /\ user = null
  /\ isLoading = TRUE
  /\ href \in urls
  /\ redirect = FALSE
  /\ initAuth = [pc |-> "start", token |-> NoTok, res |-> "none"]
  /\ req = EmptyBag
  /\ issued = 0
  /\ last = [op |-> "load", rq |-> IdleReq]
  /\ tut = TutorialMounted
  /\ page = EventsPageMounted
  /\ store = StoreEmpty
  /\ view = Fresh

Init == InitAt(Paths)

\* ------------------------------------------------- AuthContext.jsx
FinallyInTry(ok, loading) == IF ok THEN FALSE ELSE loading

\* setIsLoading(false) of line 39 and of the finally blocks of lines 61-63
\* and 95-97: isLoading after a call that ended with ok or with a throw
Finally(ok, loading) == FALSE

\* where the continuation of a page's call navigates: fetchEvent's catch
\* and handleDelete's try go to /events, handleSubmit's try goes to the
\* page of the event created; every other continuation stays on path
Target(kind, ok, path) ==
  CASE kind = "detail" /\ ~ok -> PathEvents
    [] kind = "delete" /\ ok -> PathEvents
    [] kind = "create" /\ ok -> PathEventDetail
    [] OTHER -> path

\* the instants the clock can show at a render after the render of pg
Later(pg) == {t \in Instants : t >= pg.now}

\* EventsPage.fetchEvents after its call rq settled: the states pg can be
\* left in. setEvents(the list of the response) in the try, setEvents([])
\* in the catch, setLoading(false) in the finally, and the memo computed
\* again; a setState of an unmounted component changes nothing
fetchEvents(rq, ok, pg) ==
  IF rq.kind = "events" /\ rq.live
  THEN {Rendered([pg EXCEPT !.events = eventsData, !.loading = FALSE], now) :
          eventsData \in IF ok THEN EventLists ELSE {<<>>},
          now \in Later(pg)}
  ELSE {pg}

\* the state of the page after the continuation of its call rq: setEvent
\* in the try, setLoading(false) / setDeleting(false) in the finally; a
\* setState of an unmounted component changes nothing
After(rq, ok, v) ==
  IF ~rq.live THEN v
  ELSE CASE rq.kind = "detail" ->
              [v EXCEPT !.loaded = IF ok THEN TRUE ELSE @]
         [] rq.kind \in {"create", "delete"} -> [v EXCEPT !.busy = FALSE]
         [] OTHER -> v

\* the promise continuations of the caller of the call rq0 once it
\* settles (rq is rq0 as the interceptor left it): initAuth (profile),
\* login / register, or a page (every other kind), and the render that
\* follows. ls and redir are storage and redirect as the interceptor left
\* them.
Settle(rq0, rq, ok, ls, redir, op) ==
  /\ redirect' = redir
  /\ last' = [op |-> op,
              rq |-> [rq EXCEPT !.pc = "done",
                         !.result = IF ok THEN "resolved" ELSE "rejected"]]
  /\ CASE rq.kind = "profile" ->
          \* initAuth, lines 28-39
          /\ user' = IF ok THEN rq.Authorization.tok.user ELSE user
          /\ localStorage' = IF ok THEN ls ELSE clearTokens(ls)
          /\ isLoading' = Finally(ok, isLoading)
          /\ initAuth' = [initAuth EXCEPT !.pc = "done",
                            !.res = IF ok THEN "ok" ELSE "fail"]
          /\ issued' = issued
          /\ href' = Route(href, user', FALSE)
          /\ Commit(Remove(req, rq0), view, page, href, FALSE)
       [] rq.kind \in {"login", "register"} ->
          \* authAPI.login lines 113-116, login lines 49-62,
          \* LoginPage.handleSubmit lines 58-60 (navigate('/dashboard'));
          \* register lines 70-97, which no page calls: no navigate
          /\ user' = IF ok THEN rq.who ELSE user
          /\ localStorage' =
               IF ok THEN setTokens(ls, Jwt(rq.who, issued + 1),
                                    Jwt(rq.who, issued + 1))
               ELSE ls
          /\ issued' = IF ok THEN issued + 1 ELSE issued
          /\ isLoading' = Finally(ok, isLoading)
          /\ LET via == IF ok /\ rq.kind = "login" THEN PathDashboard
                        ELSE href
             IN /\ href' = Route(via, user', FALSE)
                /\ Commit(Remove(req, rq0), view, page, via, FALSE)
          /\ UNCHANGED initAuth
       [] OTHER ->
          \* DashboardPage lines 19-35, EventsPage lines 31-46,
          \* EventDetailPage lines 48-83, PublicEventPage lines 207-217,
          \* CreateEventPage lines 493-520
          /\ localStorage' = ls
          /\ UNCHANGED <<user, isLoading, initAuth, issued>>
          /\ href' = Route(Target(rq.kind, ok, href), user, isLoading)
          /\ \E pg \in fetchEvents(rq, ok, page) :
               Commit(Remove(req, rq0), After(rq, ok, view), pg,
                      Target(rq.kind, ok, href), rq.kind = "create" /\ ok)

\* a page is (re)loaded: the React tree is rebuilt, pending calls are
\* dropped by the browser, localStorage survives
PageLoadAt(urls) ==
  /\ \E p \in urls : (redirect => p = PathLogin) /\ href' = p
  /\ user' = null
  /\ isLoading' = TRUE
  /\ redirect' = FALSE
  /\ initAuth' = [pc |-> "start", token |-> NoTok, res |-> "none"]
  /\ req' = EmptyBag
  /\ view' = Fresh
  /\ page' = EventsPageMounted
  /\ last' = [op |-> "load", rq |-> IdleReq]
  /\ UNCHANGED <<localStorage, issued>>

PageLoad == PageLoadAt(Paths)

\* useEffect(() => initAuth(), []) up to its first await
InitAuth ==
  /\ initAuth.pc = "start"
  /\ IF isAuthenticated(localStorage)
     THEN /\ Free
          /\ req' = Add(req, Dispatched("profile", null, localStorage))
          /\ last' = [op |-> "initAuth.profile", rq |-> IdleReq]
          /\ initAuth' = [pc |-> "waiting",
                          token |-> getAccessToken(localStorage),
                          res |-> "none"]
          /\ UNCHANGED <<isLoading, href, view, page>>
          /\ UNCHANGED <<localStorage, user, redirect, issued>>
     ELSE /\ initAuth' = [pc |-> "done", token |-> NoTok, res |-> "none"]
          /\ isLoading' = FALSE
          /\ href' = Route(href, user, FALSE)
          /\ last' = [op |-> "initAuth.anon", rq |-> IdleReq]
          /\ UNCHANGED <<localStorage, user, redirect, issued>>
          /\ Commit(req, view, page, href, FALSE)

\* the login form is shown: PublicRoute on /login, not loading, no user
LoginPageShown ==
  ~isLoading /\ user = null /\ href = PathLogin /\ ~redirect

\* login(credentials) up to the await of authAPI.login
Login ==
  /\ LoginPageShown
  /\ Free
  /\ isLoading' = TRUE
  /\ UNCHANGED <<localStorage, user, href, redirect, initAuth, issued>>
  /\ \E u \in Users :
       /\ Commit(Add(req, Dispatched("login", u, localStorage)), view, page,
                 href, FALSE)
       /\ last' = [op |-> "login.call", rq |-> IdleReq]

\* register(userData) up to the await of authAPI.register; the context
\* offers it to every page it renders
Register ==
  /\ ~isLoading /\ ~redirect
  /\ Free
  /\ isLoading' = TRUE
  /\ UNCHANGED <<localStorage, user, href, redirect, initAuth, issued>>
  /\ \E u \in Users :
       /\ Commit(Add(req, Dispatched("register", u, localStorage)), view,
                 page, href, FALSE)
       /\ last' = [op |-> "register.call", rq |-> IdleReq]

\* Navbar.handleLogout: logout() then navigate('/login')
Logout ==
  /\ ~isLoading /\ user # null /\ ~redirect
  /\ localStorage' = clearTokens(localStorage)
  /\ user' = null
  /\ href' = Route(PathLogin, null, FALSE)
  /\ last' = [op |-> "logout", rq |-> IdleReq]
  /\ UNCHANGED <<isLoading, redirect, initAuth, issued>>
  /\ Commit(req, view, page, PathLogin, FALSE)

\* a gesture on the page element: the page is on screen; the user makes
\* no gesture between window.location.href = '/login' and the load
OnScreen(element) == Shown = element /\ ~redirect

\* CreateEventPage.handleSubmit with a valid form, up to the await; the
\* submit button is disabled while loading
handleSubmit ==
  /\ OnScreen(Page("CreateEventPage"))
  /\ ~view.busy
  /\ Free
  /\ req' = Add(req, Dispatched("create", null, localStorage))
  /\ view' = [view EXCEPT !.busy = TRUE]
  /\ last' = [op |-> "create.call", rq |-> IdleReq]
  /\ UNCHANGED <<localStorage, user, isLoading, href, redirect, initAuth,
                 issued, page>>

\* EventDetailPage.handleDelete once confirmed, up to the await; the page
\* renders its buttons when the event is loaded, Delete is disabled while
\* deleting
handleDelete ==
  /\ OnScreen(Page("EventDetailPage"))
  /\ view.loaded /\ ~view.busy
  /\ Free
  /\ req' = Add(req, Dispatched("delete", null, localStorage))
  /\ view' = [view EXCEPT !.busy = TRUE]
  /\ last' = [op |-> "delete.call", rq |-> IdleReq]
  /\ UNCHANGED <<localStorage, user, isLoading, href, redirect, initAuth,
                 issued, page>>

\* handleShare of EventsPage (the Share button of a displayed event) and
\* of EventDetailPage, handleEditSubmit of EventDetailPage (both once the
\* event is loaded), up to the await; their continuations leave the
\* session and the page where they are
SendData ==
  /\ \/ OnScreen(Page("EventsPage")) /\ page.filteredEvents # <<>>
     \/ OnScreen(Page("EventDetailPage")) /\ view.loaded
  /\ Free
  /\ req' = Add(req, Dispatched("data", null, localStorage))
  /\ last' = [op |-> "send", rq |-> IdleReq]
  /\ UNCHANGED <<localStorage, user, isLoading, href, redirect, initAuth,
                 issued, view, page>>

\* updateUser(userData), called by a rendered page: setUser(userData); the
\* guards render again with the new user
UpdateUser ==
  /\ ~isLoading /\ ~redirect
  /\ \E userData \in Users \cup {null} :
       /\ userData # user
       /\ user' = userData
  /\ href' = Route(href, user', FALSE)
  /\ last' = [op |-> "updateUser", rq |-> IdleReq]
  /\ UNCHANGED <<localStorage, isLoading, redirect, initAuth, issued>>
  /\ Commit(req, view, page, href, FALSE)

\* the user follows a link inside the app or uses the Back button of the
\* browser (no reload). To another path: under the spinner only the url
\* changes; a guard can lead back to the page shown, which is then
\* mounted anew. To another url of the path shown (another id, another
\* shareId): the page stays mounted and its effect sends its call again
\* (under the spinner no page is mounted and only the url changes)
NavigateTowards(urls) ==
  /\ ~redirect
  /\ last' = [op |-> "navigate", rq |-> IdleReq]
  /\ UNCHANGED <<localStorage, user, isLoading, redirect, initAuth, issued>>
  /\ \E p \in urls :
       /\ p = href => p \in ParamPaths
       /\ href' = Route(p, user, isLoading)
       /\ Commit(req, view, page, p, p = href)

Navigate == NavigateTowards(Paths)

\* ------------------------------------------------- backend answers
\* statuses the backend can answer a call with; 200 is any 2xx (201 of
\* POST /events/, 204 of DELETE), 0 an error without a response (network
\* failure, timeout), 400 any other error status
Statuses(rq) ==
  {401, 400, 0}
  \cup (IF rq.kind \in {"login", "register"} /\ issued < MaxIssued
        THEN {200} ELSE {})
  \cup (IF rq.kind = "profile" /\ rq.Authorization.tok.kind = "jwt"
        THEN {200} ELSE {})
  \cup (IF rq.kind = "data" /\ rq.Authorization.tok.kind \in {"jwt", "absent"}
        THEN {200} ELSE {})
  \cup (IF rq.kind \in PageKinds /\ rq.Authorization.tok.kind = "jwt"
        THEN {200} ELSE {})

\* the answer to the call rq arrives: response interceptor (lines 55-95)
\* and the caller's continuation
Respond(rq) ==
  /\ rq.pc = "sent"
  /\ \E status \in Statuses(rq) :
       IF status = 200
       THEN Settle(rq, rq, TRUE, localStorage, redirect, "resolve")
       ELSE IF ShouldRefresh(status, rq.retry)
       THEN LET refreshToken == getRefreshToken(localStorage) IN
            IF Truthy(refreshToken)
            THEN \* lines 62-71: the refresh POST is sent
                 /\ req' = Add(Remove(req, rq),
                              [rq EXCEPT !.pc = "refreshing", !.retry = TRUE,
                                         !.refreshToken = refreshToken,
                                         !.nRefresh = rq.nRefresh + 1])
                 /\ last' = [op |-> "refresh.sent", rq |-> IdleReq]
                 /\ UNCHANGED <<localStorage, user, isLoading, href,
                                redirect, initAuth, issued, view, page>>
            ELSE \* lines 86-93
                 Settle(rq, [rq EXCEPT !.retry = TRUE], FALSE,
                        clearTokens(localStorage), TRUE, "reject.norefresh")
       ELSE \* line 93
            Settle(rq, rq, FALSE, localStorage, redirect,
                   IF rq.retry /\ status = 401 THEN "reject.retry401"
                   ELSE "reject")

\* the answer to the refresh POST of the call rq arrives (lines 72-85)
RefreshRespond(rq) ==
  /\ rq.pc = "refreshing"
  /\ \E outcome \in RefreshOutcomes :
       LET newTok == Jwt(rq.refreshToken.user, issued + 1)
           access == AccessOf(outcome, newTok)
       IN
       /\ outcome = "ok" => issued < MaxIssued
       /\ IF AfterRefresh(outcome) = "retry"
          THEN LET ls == setTokens(localStorage, access, rq.refreshToken)
                   h == RequestInterceptor(ls, Bearer(access))
               IN
               /\ localStorage' = ls
               /\ req' = Add(Remove(req, rq),
                            [rq EXCEPT !.pc = "sent", !.access = access,
                                       !.refreshRes = outcome,
                                       !.Authorization = h,
                                       !.stored = getAccessToken(ls),
                                       !.nRetry = rq.nRetry + 1])
               /\ issued' = IF outcome = "ok" THEN issued + 1 ELSE issued
               /\ last' = [op |-> "retry", rq |-> IdleReq]
               /\ UNCHANGED <<user, isLoading, href, redirect, initAuth,
                              view, page>>
          ELSE Settle(rq, [rq EXCEPT !.refreshRes = outcome], FALSE,
                      clearTokens(localStorage), TRUE, "reject.refresh")

\* the session of a user who has an account: the tutorial overlay is left
\* out, and so is register, which no component of the app calls (it is
\* followed over the route table and where every request is answered)
Next ==
  \/ PageLoad /\ UNCHANGED <<tut, store>>
  \/ InitAuth /\ UNCHANGED <<tut, store>>
  \/ Login /\ UNCHANGED <<tut, store>>
  \/ Logout /\ UNCHANGED <<tut, store>>
  \/ Navigate /\ UNCHANGED <<tut, store>>
  \/ UpdateUser /\ UNCHANGED <<tut, store>>
  \/ \E rq \in InFlight : Respond(rq) /\ UNCHANGED <<tut, store>>
  \/ \E rq \in InFlight : RefreshRespond(rq) /\ UNCHANGED <<tut, store>>

Spec == Init /\ [][Next]_vars

\* the lists GET /events/ answers with while the whole route table is
\* followed: no event, or one event
RouteLists ==
  {<<>>, <<[title |-> <<"a">>, location |-> <<>>, description |-> <<>>,
            date_time |-> 0]>>}

\* a step of the session over the whole route table: at most MaxRouteReqs
\* calls are in flight after it
RouteStep ==
  /\ BagCardinality(req') <= MaxRouteReqs
  /\ page'.events \in RouteLists
  /\ UNCHANGED <<tut, store>>

\* the session over the whole route table
RouteNext ==
  \/ PageLoadAt(AllPaths) /\ RouteStep
  \/ InitAuth /\ RouteStep
  \/ Login /\ RouteStep
  \/ Register /\ RouteStep
  \/ Logout /\ RouteStep
  \/ handleSubmit /\ RouteStep
  \/ handleDelete /\ RouteStep
  \/ SendData /\ RouteStep
  \/ UpdateUser /\ RouteStep
  \/ NavigateTowards(AllPaths) /\ RouteStep
  \/ \E rq \in InFlight : Respond(rq) /\ RouteStep
  \/ \E rq \in InFlight : RefreshRespond(rq) /\ RouteStep

SpecRoute == InitAt(AllPaths) /\ [][RouteNext]_vars

\* the session when every request is answered: no page is reloaded while a
\* call is in flight (a reload abandons the calls), the mount effect runs
\* and the network answers every call
Reload == req = EmptyBag /\ PageLoad /\ UNCHANGED <<tut, store>>

Mount == InitAuth /\ UNCHANGED <<tut, store>>

Answer ==
  /\ \E rq \in InFlight :
       (Respond(rq) \/ RefreshRespond(rq)) /\ UNCHANGED <<tut, store>>
  /\ issued' <= MaxLiveIssued

LiveNext ==
  \/ Reload
  \/ Mount
  \/ Login /\ UNCHANGED <<tut, store>>
  \/ Register /\ UNCHANGED <<tut, store>>
  \/ Logout /\ UNCHANGED <<tut, store>>
  \/ Navigate /\ UNCHANGED <<tut, store>>
  \/ UpdateUser /\ UNCHANGED <<tut, store>>
  \/ Answer

SpecLive ==
  Init /\ [][LiveNext]_vars /\ WF_vars(Mount) /\ WF_vars(Answer)

\* ------------------------------------------- tutorial (App.jsx, Tutorial.jsx)
\* AppContent renders again after a step of the session
AppRerender ==
  /\ tut' = AppContentEffect(tut, user # null, isLoading, user' # null,
                             isLoading', localStorage')
  /\ tut'.timers <= MaxTimers
  /\ BagCardinality(req') <= MaxTutorialReqs
  /\ issued' <= MaxTutorialIssued
  /\ UNCHANGED store

\* a page load builds a new React tree; the timers of the old page are gone
AppMount == tut' = TutorialMounted /\ UNCHANGED store

\* what a step of the tutorial leaves alone
TutorialOnly == UNCHANGED <<user, isLoading, href, redirect, initAuth, req,
                            issued, page, store, view>>

\* the Tutorial overlay is on screen
TutorialOpen == tut.showTutorial /\ ~isLoading /\ ~redirect

\* onClose: setShowTutorial(false)
onClose(t) == [t EXCEPT !.showTutorial = FALSE, !.opened = "none"]

\* setTimeout(() => setShowTutorial(true), 1000) runs
TimerFires ==
  /\ tut.timers > 0
  /\ tut' = [tut EXCEPT !.timers = @ - 1, !.showTutorial = TRUE,
                        !.opened = IF tut.showTutorial THEN @ ELSE "timer"]
  /\ last' = [op |-> "tutorial.timer", rq |-> IdleReq]
  /\ UNCHANGED localStorage
  /\ TutorialOnly

\* <TutorialButton onClick={() => setShowTutorial(true)} />
TutorialButton ==
  /\ user # null /\ ~isLoading /\ ~redirect
  /\ ~tut.showTutorial
  /\ tut' = [tut EXCEPT !.showTutorial = TRUE, !.opened = "button"]
  /\ last' = [op |-> "tutorial.button", rq |-> IdleReq]
  /\ UNCHANGED localStorage
  /\ TutorialOnly

\* closeTutorial: the X button, and Finish through nextStep
closeTutorial ==
  /\ localStorage' = [localStorage EXCEPT !.tutorial_completed = StrTrue]
  /\ tut' = onClose(tut)
  /\ last' = [op |-> "tutorial.close", rq |-> IdleReq]
  /\ TutorialOnly

\* the X button
CloseClicked == TutorialOpen /\ closeTutorial

\* Next / Finish
nextStep ==
  /\ TutorialOpen
  /\ IF tut.currentStep < Len(tutorialSteps) - 1
     THEN /\ tut' = [tut EXCEPT !.currentStep = @ + 1]
          /\ last' = [op |-> "tutorial.next", rq |-> IdleReq]
          /\ UNCHANGED localStorage
          /\ TutorialOnly
     ELSE closeTutorial

\* Back, rendered when !isFirstStep
prevStep ==
  /\ TutorialOpen
  /\ tut.currentStep > 0
  /\ tut' = [tut EXCEPT !.currentStep = @ - 1]
  /\ last' = [op |-> "tutorial.back", rq |-> IdleReq]
  /\ UNCHANGED localStorage
  /\ TutorialOnly

\* Skip Tour, rendered when isFirstStep
skipTutorial ==
  /\ TutorialOpen
  /\ tut.currentStep = 0
  /\ localStorage' = [localStorage EXCEPT !.tutorial_skipped = StrTrue]
  /\ tut' = onClose(tut)
  /\ last' = [op |-> "tutorial.skip", rq |-> IdleReq]
  /\ TutorialOnly

\* the session with the tutorial
TutorialNext ==
  \/ PageLoad /\ AppMount
  \/ InitAuth /\ AppRerender
  \/ Login /\ AppRerender
  \/ Register /\ AppRerender
  \/ Logout /\ AppRerender
  \/ Navigate /\ AppRerender
  \/ UpdateUser /\ AppRerender
  \/ \E rq \in InFlight : Respond(rq) /\ AppRerender
  \/ \E rq \in InFlight : RefreshRespond(rq) /\ AppRerender
  \/ TimerFires
  \/ TutorialButton
  \/ CloseClicked
  \/ nextStep
  \/ prevStep
  \/ skipTutorial

SpecTutorial == Init /\ [][TutorialNext]_vars

\* ------------------------------------------- events page (EventsPage.jsx)
\* what a gesture on the controls of the events page leaves alone
EventsPageOnly ==
  UNCHANGED <<localStorage, user, isLoading, href, redirect, initAuth, req,
              issued, tut, store, view>>

\* the filter buttons and the search box are on screen: EventsPage is
\* shown and has left its own spinner
ControlsShown == OnScreen(Page("EventsPage")) /\ ~page.loading

\* onClick={() => setFilter(key)}
setFilter ==
  /\ ControlsShown
  /\ \E key \in {"all", "upcoming", "past"}, now \in Later(page) :
       /\ key # page.filter
       /\ page' = Rendered([page EXCEPT !.filter = key], now)
  /\ last' = [op |-> "setFilter", rq |-> IdleReq]
  /\ EventsPageOnly

\* onChange={(e) => setSearchTerm(e.target.value)}
setSearchTerm ==
  /\ ControlsShown
  /\ \E value \in Words(MaxLen), now \in Later(page) :
       /\ value # page.searchTerm
       /\ page' = Rendered([page EXCEPT !.searchTerm = value], now)
  /\ last' = [op |-> "setSearchTerm", rq |-> IdleReq]
  /\ EventsPageOnly

\* the paths on the way to the events page: the login form, the dashboard
\* a login leads to, the events page
EventsPagePaths == {PathLogin, PathDashboard, PathEvents}

\* a step of the session while the events page is followed: at most
\* MaxEventsPageReqs calls are in flight after it and at most
\* MaxEventsPageIssued token pairs were issued
EventsPageStep ==
  /\ BagCardinality(req') <= MaxEventsPageReqs
  /\ issued' <= MaxEventsPageIssued
  /\ UNCHANGED <<tut, store>>

\* the session of a user of the events page: load, sign in, sign out,
\* follow links, share, filter and search
EventsPageNext ==
  \/ PageLoadAt(EventsPagePaths) /\ EventsPageStep
  \/ InitAuth /\ EventsPageStep
  \/ Login /\ EventsPageStep
  \/ Logout /\ EventsPageStep
  \/ SendData /\ EventsPageStep
  \/ NavigateTowards(EventsPagePaths) /\ EventsPageStep
  \/ \E rq \in InFlight : Respond(rq) /\ EventsPageStep
  \/ \E rq \in InFlight : RefreshRespond(rq) /\ EventsPageStep
  \/ setFilter
  \/ setSearchTerm

\* the app opened at /events
SpecEventsPage == InitAt({PathEvents}) /\ [][EventsPageNext]_vars

\* ------------------------------------- backend: events and share links
\* what a request to the backend leaves alone
StoreOnly ==
  UNCHANGED <<localStorage, user, isLoading, href, redirect, initAuth, req,
              issued, last, tut, page, view>>

\* the request op is answered: store.last records it
Answered(op, who, id, arg, response, lookup, events) ==
  [store EXCEPT !.events = events,
                !.last = [op |-> op, who |-> who, id |-> id, arg |-> arg,
                          response |-> response, lookup |-> lookup]]

\* GET /events/
ListEvents ==
  /\ \E who \in Users, params \in ClientParams :
       store' = Answered("list", who, MissingId, params,
                         list(store.events, who, params), TRUE, store.events)
  /\ StoreOnly

\* GET /events/{id}/
GetEvent ==
  /\ \E who \in Users, id \in EventIds \cup {MissingId} :
       store' = Answered("get", who, id, <<>>, get(store.events, who, id),
                         TRUE, store.events)
  /\ StoreOnly

\* POST /events/
CreateEvent ==
  /\ store.created < MaxEvents
  /\ \E who \in Users, title \in StoreTitles :
       LET id == store.created + 1
           \* the events are scheduled one instant after the other
           r == create(store.events, who, id, title, store.created)
       IN store' = [Answered("create", who, id, title, r.response, TRUE,
                             r.events) EXCEPT !.created = id]
  /\ StoreOnly

\* PUT /events/{id}/
UpdateEvent ==
  /\ \E who \in Users, id \in EventIds \cup {MissingId},
        title \in StoreTitles :
       LET r == update(store.events, who, id, title) IN
       store' = Answered("update", who, id, title, r.response, TRUE, r.events)
  /\ StoreOnly

\* DELETE /events/{id}/
DeleteEvent ==
  /\ \E who \in Users, id \in EventIds \cup {MissingId} :
       LET r == delete(store.events, who, id) IN
       store' = Answered("delete", who, id, <<>>, r.response, TRUE, r.events)
  /\ StoreOnly

\* POST /events/{id}/generate_share_link/
GenerateShareLink ==
  /\ \E who \in Users, id \in EventIds \cup {MissingId} :
       \* a fresh identifier: no other event has or had it
       LET fresh == Uuid(id)
           r == generate(store.events, who, id, fresh)
           isNew == r.events # store.events
       IN store' = [Answered("generate", who, id, <<>>, r.response, TRUE,
                             r.events)
                      EXCEPT !.links = IF isNew THEN @ \cup {<<fresh, id>>}
                                       ELSE @]
  /\ StoreOnly

\* GET /public/events/{shareId}/
ResolveShareLink ==
  /\ \E shareId \in ShareInputs :
       LET r == resolve(store.events, shareId) IN
       store' = Answered("resolve", null, MissingId, shareId, r.response,
                         r.lookup, store.events)
  /\ StoreOnly

StoreNext ==
  \/ ListEvents
  \/ GetEvent
  \/ CreateEvent
  \/ UpdateEvent
  \/ DeleteEvent
  \/ GenerateShareLink
  \/ ResolveShareLink

\* the backend on its own
SpecStore == InitAt({PathLogin}) /\ [][StoreNext]_vars

TypeOK ==
  /\ user \in Users \cup {null}
  /\ isLoading \in BOOLEAN
  /\ href \in Paths
  /\ redirect \in BOOLEAN
  /\ issued \in 0..MaxIssued

\* ---------------------------------------------------------------- claims
\* the calls in flight and the call that settled in the last step
Calls == InFlight \cup {last.rq}

\* the refresh token key holds a value / the access token key holds a value
HasRefresh == Truthy(getRefreshToken(localStorage))
HasAccess == Truthy(getAccessToken(localStorage))

\* neither token key is stored
TokensGone == ~HasAccess /\ ~HasRefresh

\* line 75 (interceptor) or line 115 / 105 (authAPI) ran for this call
StoredByCall(rq) ==
  \/ rq.refreshRes \in {"ok", "rejected"}
  \/ rq.kind \in {"login", "register"} /\ rq.result = "resolved"

\* the calls whose refresh POST is in flight, with multiplicity
Refreshing == {rq \in InFlight : rq.pc = "refreshing"}
NumRefreshing == BagCardinality([rq \in Refreshing |-> CopiesIn(rq, req)])

\* C1: a call answered 401 while a refresh token is stored issues exactly
\* one POST to /auth/refresh/; while that POST is pending the call has not
\* been dispatched again, and once it succeeded the call has been
\* dispatched again exactly once.
C1_OneRefreshOneRetry ==
  \A rq \in Calls :
    (rq.retry /\ Truthy(rq.refreshToken)) =>
      /\ rq.nRefresh = 1
      /\ rq.pc = "refreshing" => rq.nRetry = 0
      /\ rq.refreshRes = "ok" => rq.nRetry = 1

C1_Witness ==
  /\ last.rq.pc = "done"
  /\ last.rq.result = "resolved"
  /\ last.rq.refreshRes = "ok"
  /\ last.rq.nRefresh = 1
  /\ last.rq.nRetry = 1

\* C2: when the refresh endpoint rejects the refresh token, the call is
\* not retried and fails to its caller, and in the state the interceptor
\* leaves both tokens are removed and the client is sent to /login.
C2_RejectedRefreshEndsSession ==
  \A rq \in Calls :
    rq.refreshRes = "rejected" =>
      /\ rq.nRetry = 0
      /\ rq.pc = "done" /\ rq.result = "rejected"
      /\ last.op = "reject.refresh" => (TokensGone /\ redirect)

\* C3: no call runs more than one refresh cycle or is retried more than
\* once, whatever the backend answers.
C3_AtMostOneRetry ==
  \A rq \in Calls : rq.nRefresh <= 1 /\ rq.nRetry <= 1

C3_Witness ==
  /\ last.op = "reject.retry401"
  /\ last.rq.nRefresh = 1
  /\ last.rq.nRetry = 1

\* C4 as stated: of the calls that failed with 401 together, only one
\* refresh POST is executed.
C4_SingleRefresh == NumRefreshing <= 1

\* C4 as amended: every call that failed with 401 while a refresh token
\* was stored runs a refresh POST of
\* its own (one per call), and a call whose refresh succeeded is retried
\* with the access token that its own refresh produced, a token issued for
\* the user of the refresh token it sent.
C4_OwnRefreshPerCall ==
  \A rq \in InFlight :
    /\ rq.pc = "refreshing" => (rq.nRefresh = 1 /\ rq.nRetry = 0)
    /\ (rq.nRetry >= 1 /\ rq.refreshRes = "ok") =>
         /\ rq.access.kind = "jwt"
         /\ rq.access.user = rq.refreshToken.user
         /\ rq.Authorization.tok = rq.access

\* two calls in flight whose refreshes both succeeded, each dispatched
\* again with the token of its own refresh
C4_Witness ==
  \E a, b \in InFlight :
    /\ a.nRetry = 1 /\ a.refreshRes = "ok"
    /\ b.nRetry = 1 /\ b.refreshRes = "ok"
    /\ a.access # b.access
    /\ a.Authorization.tok = a.access
    /\ b.Authorization.tok = b.access

\* C5: a retried call was dispatched after its refresh had answered and
\* the access value of the answer had been written to storage; it carries
\* that value, which after a successful refresh is an issued token that
\* differs from the one the call carried first.
C5_RetryCarriesNewToken ==
  \A rq \in Calls :
    rq.nRetry >= 1 =>
      /\ rq.refreshRes \in {"ok", "rejected"}
      /\ rq.stored = String(rq.access)
      /\ rq.Authorization = Bearer(rq.access)
      /\ rq.refreshRes = "ok" =>
           (rq.access.kind = "jwt" /\ rq.Authorization # rq.first)

C5_Witness ==
  \E rq \in InFlight :
    /\ rq.pc = "sent" /\ rq.nRetry = 1 /\ rq.refreshRes = "ok"
    /\ rq.first.kind = "bearer"
    /\ rq.Authorization.tok.ver > rq.first.tok.ver
    /\ getAccessToken(localStorage) = rq.access

\* C6: when the retry that follows a successful refresh is answered 401
\* again, the tokens are cleared and the client is sent to the login page.
C6_Retry401ForcesLogout ==
  (last.op = "reject.retry401" /\ last.rq.refreshRes = "ok") =>
    (TokensGone /\ (redirect \/ (user = null /\ href = PathLogin)))

\* C7: at application start the user is null; a profile request is made
\* exactly when an access token is stored; when it succeeds the user is
\* the returned user, when it fails the user is null and both tokens are
\* removed.
C7_InitAuth ==
  /\ initAuth.pc = "start" => (user = null /\ isLoading)
  /\ last.op = "initAuth.anon" =>
       (~HasAccess /\ user = null /\ ~isLoading
        /\ ~\E rq \in InFlight : rq.kind = "profile")
  /\ last.op = "initAuth.profile" =>
       (HasAccess /\ user = null /\ \E rq \in InFlight : rq.kind = "profile")
  /\ (last.rq.kind = "profile" /\ last.rq.pc = "done") =>
       IF last.rq.result = "resolved"
       THEN user # null /\ user = last.rq.Authorization.tok.user
       ELSE user = null /\ TokensGone

C7_Witness ==
  /\ last.rq.kind = "profile" /\ last.rq.result = "rejected"
  /\ Truthy(initAuth.token)
  /\ user = null /\ TokensGone

\* C8: right after logout() neither token is stored and the user is null.
C8_LogoutClears ==
  last.op = "logout" => (TokensGone /\ user = null)

C8_Witness == last.op = "logout" /\ InFlight # {}

\* C9: a call dispatched while an access token is stored carries
\* Authorization: Bearer <that token>; a call dispatched while none is
\* stored carries no Authorization header.
C9_BearerAttached ==
  \A rq \in Calls :
    rq.pc # "idle" =>
      IF Truthy(rq.stored)
      THEN rq.Authorization = Bearer(rq.stored)
      ELSE rq.Authorization = NoHeader

C9_Witness ==
  \E a, b \in InFlight :
    /\ a.Authorization.kind = "bearer" /\ a.Authorization.tok.kind = "jwt"
    /\ b.Authorization = NoHeader /\ b.stored = NoTok

\* C10: when login settles, on success the returned pair is stored and the
\* user is the returned user; on failure the user is null and the attempt
\* has stored no token pair; in both cases isLoading is false.
C10_LoginOutcome ==
  (last.rq.kind = "login" /\ last.rq.pc = "done") =>
    /\ ~isLoading
    /\ IF last.rq.result = "resolved"
       THEN /\ user = last.rq.who
            /\ localStorage.access_token = Jwt(last.rq.who, issued)
            /\ localStorage.refresh_token = Jwt(last.rq.who, issued)
       ELSE /\ user = null
            /\ ~StoredByCall(last.rq)


\* C11: whatever url is requested, the content of a protected route
\* (/dashboard, /events, /events/new, /events/:id) is rendered only while
\* the context user is non-null and isLoading is false; otherwise the guard
\* renders the spinner or redirects to /login; the shared event page is
\* rendered whether or not a user is authenticated.
C11_ProtectedContent ==
  /\ \A p \in ProtectedPaths :
       LET element == AppContent(p, user, isLoading) IN
       IF user # null /\ ~isLoading
       THEN element.kind = "page"
       ELSE element \in {LoadingSpinner, NavigateTo(PathLogin)}
  /\ (Shown.kind = "page" /\ href \in ProtectedPaths) =>
       user # null /\ ~isLoading
  /\ ~isLoading =>
       AppContent(PathShared, user, isLoading) = Page("PublicEventPage")

C11_Witness ==
  /\ href = PathEvents
  /\ Shown = Page("EventsPage")
  /\ last.op = "resolve"
  /\ last.rq.kind = "profile"

\* C19: whenever the tutorial is reopened with the tutorial button after it
\* has been finished, closed or skipped, it shows its first step (index 0).
C19_RestartFromFirstStep ==
  (/\ last.op = "tutorial.button"
   /\ TutorialSeen(localStorage)) => tut.currentStep = 0

\* C20: once tutorial-completed or tutorial-skipped is stored, the tutorial
\* is not opened by the timer of AppContent any more: an overlay opened by
\* the timer is on screen only while neither key is stored.
C20_NoAutoOpenOnceSeen ==
  (tut.showTutorial /\ tut.opened = "timer") => ~TutorialSeen(localStorage)

\* s contains t when the case of the letters is ignored
ContainsIgnoringCase(s, t) ==
  \E i \in 0..(Len(s) - Len(t)) :
    \A j \in 1..Len(t) :
      \/ s[i + j] = t[j]
      \/ {s[i + j], t[j]} = {"a", "A"}

\* the event passes the date filter selected when the list was computed
PassesDateFilter(event) ==
  CASE page.filter = "upcoming" -> event.date_time > page.now
    [] page.filter = "past" -> event.date_time < page.now
    [] OTHER -> TRUE

\* C18 as stated: with a non-empty search term the displayed events are
\* exactly the loaded events that pass the date filter and whose title or
\* location contains the term, case ignored; with an empty term and filter
\* 'all' every loaded event is displayed.
C18_TitleOrLocation ==
  /\ page.searchTerm # <<>> =>
       page.filteredEvents =
         SelectSeq(page.events,
                   LAMBDA e : /\ PassesDateFilter(e)
                              /\ \/ ContainsIgnoringCase(e.title,
                                                         page.searchTerm)
                                 \/ ContainsIgnoringCase(e.location,
                                                         page.searchTerm))
  /\ (page.searchTerm = <<>> /\ page.filter = "all") =>
       page.filteredEvents = page.events

\* C18 amended: with a non-empty search term the displayed events are
\* exactly the loaded events that pass the date filter and whose title,
\* location or description contains the term, case ignored; with an empty
\* term and filter 'all' every loaded event is displayed.
C18_TitleLocationOrDescription ==
  /\ page.searchTerm # <<>> =>
       page.filteredEvents =
         SelectSeq(page.events,
                   LAMBDA e : /\ PassesDateFilter(e)
                              /\ \E field \in {e.title, e.location,
                                               e.description} :
                                   ContainsIgnoringCase(field,
                                                        page.searchTerm))
  /\ (page.searchTerm = <<>> /\ page.filter = "all") =>
       page.filteredEvents = page.events

C18_Witness ==
  /\ page.searchTerm = <<"A">>
  /\ page.filter = "upcoming"
  /\ Len(page.filteredEvents) = 1
  /\ page.filteredEvents[1].title = <<"b">>
  /\ page.filteredEvents[1].location = <<>>
  /\ page.filteredEvents[1].description = <<"a">>

\* the ids of the events identity owns
OwnedBy(identity) ==
  {id \in Existing(store.events) : store.events[id].owner = identity}

\* the parameters of params whose key is on the allow-list
AllowListed(params) ==
  {kv \in params :
     kv[1] \in {"user", "date_time__gte", "date_time__lte",
                "title__icontains"}}

C13_NotFoundForNonOwner ==
  \A identity \in Users, id \in Existing(store.events) :
    store.events[id].owner # identity =>
      /\ get(store.events, identity, id).status = "NotFound"
      /\ get(store.events, identity, id)
           = get(store.events, identity, MissingId)
      /\ delete(store.events, identity, id).response.status = "NotFound"
      /\ delete(store.events, identity, id)
           = delete(store.events, identity, MissingId)
      /\ delete(store.events, identity, id).events = store.events
      /\ \A title \in StoreTitles :
           /\ update(store.events, identity, id, title).response.status
                = "NotFound"
           /\ update(store.events, identity, id, title)
                = update(store.events, identity, MissingId, title)
           /\ update(store.events, identity, id, title).events
                = store.events

C13_Witness ==
  /\ store.last.op = "update"
  /\ store.last.who \in Users
  /\ store.last.id \in Existing(store.events)
  /\ store.events[store.last.id].owner # store.last.who
  /\ store.events[store.last.id].title # store.last.arg
  /\ store.last.response.status = "NotFound"

\* C14: resolving a share identifier needs no identity and answers with
\* the public-safe fields (title, time, owner display name) of the one
\* event the identifier was generated for, never with another event; a
\* request without identity never changes an event.
C14_ShareLinkScope ==
  /\ \A shareId \in ShareInputs :
       LET r == resolve(store.events, shareId).response IN
       r.status = "OK" =>
         /\ DOMAIN r.body = {"title", "date_time", "owner_name"}
         /\ \E id \in Existing(store.events) :
              /\ <<shareId, id>> \in store.links
              /\ r.body.title = store.events[id].title
              /\ r.body.date_time = store.events[id].date_time
              /\ r.body.owner_name = DisplayName(store.events[id].owner)
  /\ \A id \in EventIds \cup {MissingId} :
       /\ delete(store.events, null, id).events = store.events
       /\ \A title \in StoreTitles :
            update(store.events, null, id, title).events = store.events

C14_Witness ==
  /\ store.last.op = "resolve"
  /\ store.last.response.status = "OK"
  /\ \E id, other \in Existing(store.events) :
       /\ id # other
       /\ store.events[id].share_id = store.last.arg
       /\ store.events[other].owner = store.events[id].owner
       /\ store.events[other].share_id # NoShareId

\* C15: once generate has returned a share identifier, resolving it
\* answers with the current field values of the event: after the owner
\* updated the title, the same identifier resolves to the new title.
C15_ResolveIsCurrent ==
  /\ \A link \in store.links :
       link[2] \in Existing(store.events) =>
         LET r == resolve(store.events, link[1]).response IN
         /\ r.status = "OK"
         /\ r.body.title = store.events[link[2]].title
         /\ r.body.date_time = store.events[link[2]].date_time
  /\ (/\ store.last.op = "update"
      /\ store.last.response.status = "OK"
      /\ store.events[store.last.id].share_id # NoShareId) =>
       resolve(store.events, store.events[store.last.id].share_id)
         .response.body.title = store.last.arg

C15_Witness ==
  /\ store.last.op = "update"
  /\ store.last.response.status = "OK"
  /\ store.events[store.last.id].share_id # NoShareId
  /\ store.last.arg = <<"A", "b">>

\* C16: a malformed share identifier (wrong length, disallowed characters,
\* a path-traversal-like sequence) resolves to NotFound without a storage
\* lookup; only identifiers in the 36-character UUID format reach storage.
C16_MalformedNeverLookedUp ==
  /\ \A shareId \in ShareInputs :
       LET r == resolve(store.events, shareId) IN
       /\ (shareId.len # 36 \/ shareId.chars # "uuid") =>
            r.response.status = "NotFound" /\ ~r.lookup
       /\ r.lookup => shareId.len = 36 /\ shareId.chars = "uuid"
  /\ (store.last.op = "resolve" /\ store.last.lookup) =>
       store.last.arg.len = 36 /\ store.last.arg.chars = "uuid"

C16_Witness ==
  /\ store.last.op = "resolve"
  /\ store.last.arg.chars = "../"
  /\ store.last.response.status = "NotFound"
  /\ ~store.last.lookup
  /\ store.links # {}

\* C17: for every set of client-supplied filter parameters the events
\* query answers what it answers for the allow-listed parameters among
\* them alone, and never with a fault.
C17_OnlyAllowListedFiltersCount ==
  \A identity \in Users, params \in ClientParams :
    LET r == list(store.events, identity, params) IN
    /\ r.status # "Fault"
    /\ r = list(store.events, identity, AllowListed(params))

C17_Witness ==
  /\ store.last.op = "list"
  /\ store.last.arg = {<<"owner__password", <<"a">>>>}
  /\ store.last.response.status = "OK"
  /\ DOMAIN store.last.response.body # {}
  /\ \E id \in Existing(store.events) : id \notin OwnedBy(store.last.who)

\* a login or register call succeeded in the step that led here
AuthCallSucceeded ==
  /\ last.rq.kind \in {"login", "register"}
  /\ last.rq.pc = "done"
  /\ last.rq.result = "resolved"

\* C21: from the state logout() leaves (no user, neither token stored) on,
\* storage holds no access or refresh token until a login or register call
\* succeeds, whatever the calls that were in flight at logout time do.
C21_NoTokenAfterLogout ==
  [][(user = null /\ TokensGone /\ ~AuthCallSucceeded') => TokensGone']_vars

\* the tokens stored under the two token keys
StoredTokens == {getAccessToken(localStorage), getRefreshToken(localStorage)}

\* the stored pair consists of two tokens issued for the user u
BoundTo(u) ==
  \A t \in StoredTokens : t.kind = "jwt" /\ t.user = u

\* C22: while the context user is non-null and no authentication call is
\* in progress, the token pair stored for that user stays bound to that
\* user: no step that keeps the user, the answer to a refresh started in
\* an earlier session included, leaves a token of another user in storage.
C22_TokensBoundToUser ==
  [][(/\ user # null /\ ~isLoading /\ BoundTo(user)
      /\ user' = user /\ ~isLoading') =>
       \A t \in StoredTokens' : t.kind = "jwt" => t.user = user]_vars

\* C23: the access token key never holds a value that is not a token the
\* server issued, and a call is dispatched again only after its refresh
\* was answered with a success status and a new access token, carrying
\* that token; an error answer of the refresh endpoint writes no access
\* value and dispatches no retry.
C23_OnlyIssuedAccessWritten ==
  /\ getAccessToken(localStorage).kind \in {"absent", "jwt"}
  /\ \A rq \in Calls :
       rq.nRetry >= 1 =>
         /\ rq.refreshRes = "ok"
         /\ rq.Authorization.tok.kind = "jwt"

\* C24: in every reachable state the access token key and the refresh
\* token key are both present in storage or both absent.
C24_BothOrNeither == HasAccess <=> HasRefresh

C24_Witness ==
  /\ last.op = "reject.refresh"
  /\ user # null
  /\ TokensGone
  /\ \E rq \in InFlight : rq.pc = "sent" /\ rq.refreshRes = "rejected"

\* the step that led here settled a call with the 401 answer it received
Rejected401 == last.op \in {"reject.norefresh", "reject.retry401"}

\* C25: when a call is answered 401 while no refresh token is stored, no
\* refresh request is sent and the call is not dispatched again; both token
\* keys are absent afterwards, the client is sent to /login and the call
\* fails to its caller.
C25_NoRefreshTokenEndsSession ==
  [][(~HasRefresh /\ Rejected401') =>
       /\ \E rq \in InFlight :
            /\ rq.pc = "sent" /\ rq.kind = last'.rq.kind
            /\ last'.rq.nRefresh = rq.nRefresh
            /\ last'.rq.nRetry = rq.nRetry
       /\ last'.rq.pc = "done" /\ last'.rq.result = "rejected"
       /\ TokensGone'
       /\ redirect' \/ href' = PathLogin]_vars

\* both token keys hold a token the server issued
ValidPair ==
  /\ getAccessToken(localStorage).kind = "jwt"
  /\ getRefreshToken(localStorage).kind = "jwt"

\* the access token in storage is the one the refresh of a call still in
\* flight has produced
RefreshedTokenStored ==
  \E rq \in InFlight :
    rq.refreshRes = "ok" /\ rq.access = getAccessToken(localStorage)

\* the step that led here ended the refresh cycle of a call in a failure:
\* the catch of lines 80-85, or an answer that issued no token
RefreshCycleFailed ==
  \/ last.op = "reject.refresh"
  \/ last.op = "retry" /\ ~ValidPair

\* C26: when the refresh of one call has succeeded and its new access
\* token is stored, the refresh cycle of another call that fails does not
\* remove it: a valid token pair is still stored after both cycles.
C26_FailedRefreshKeepsNewToken ==
  [][(ValidPair /\ RefreshedTokenStored /\ RefreshCycleFailed') =>
       ValidPair']_vars

\* more redirects than there are paths: the resolution cycles
Cycles == Cardinality(AllPaths) + 1

\* the number of <Navigate replace /> elements followed from path in a
\* settled state until a page is rendered; seen holds the paths left behind
RECURSIVE Redirects(_, _, _)
Redirects(path, usr, seen) ==
  LET element == AppContent(path, usr, FALSE) IN
  IF element.kind # "navigate" THEN 0
  ELSE IF element.arg \in seen \cup {path} THEN Cycles
  ELSE 1 + Redirects(element.arg, usr, seen \cup {path})

\* the path reached from path after at most n redirects
RECURSIVE Landing(_, _, _)
Landing(path, usr, n) ==
  LET element == AppContent(path, usr, FALSE) IN
  IF n = 0 \/ element.kind # "navigate" THEN path
  ELSE Landing(element.arg, usr, n - 1)

\* route resolution in the current settled state: from every requested
\* path a page is rendered after at most two redirects, an authenticated
\* user does not end on /login or /register, an unknown path ends on
\* /dashboard or /login, and without a user the page is one of anonymous
Resolves(anonymous) ==
  ~isLoading =>
    /\ \A p \in AllPaths :
         LET end == Landing(p, user, 2) IN
         /\ Redirects(p, user, {}) <= 2
         /\ AppContent(end, user, FALSE).kind = "page"
         /\ user = null => end \in anonymous
         /\ user # null => end \notin {PathLogin, PathRegister}
         /\ p \in {PathRoot, PathOther} =>
              end = IF user = null THEN PathLogin ELSE PathDashboard
    /\ Shown.kind = "page"
    /\ href = Landing(href, user, 2)

\* C27 as stated: for every requested path and every settled auth state
\* route resolution ends on a rendered page after at most two redirects
\* and never cycles; unauthenticated users end on /login or the shared
\* event page, authenticated users never end on /login or /register, and
\* unknown paths end on /dashboard or /login.
C27_AnonymousEndsOnLoginOrShared == Resolves({PathLogin, PathShared})

\* C27 amended: as stated, except that unauthenticated users end on
\* /login, /register or the shared event page.
C27_RouteResolutionSettles ==
  Resolves({PathLogin, PathRegister, PathShared})

C27_Witness ==
  /\ last.op = "navigate"
  /\ user = null
  /\ href = PathLogin
  /\ Redirects(PathOther, user, {}) = 2
  /\ Landing(PathOther, user, 2) = href

\* C28: when every request is answered, every initAuth, login and register
\* call ends with isLoading false, whether its request (and the refresh and
\* retry it triggers) succeeds or fails: a state with isLoading true is
\* always followed by one with isLoading false.
C28_LoadingEnds == isLoading ~> ~isLoading

C28_Witness ==
  /\ last.rq.kind = "login"
  /\ last.rq.result = "rejected"
  /\ last.rq.nRetry = 1
  /\ ~isLoading

\* C29: the tutorial overlay is open only while the context user is
\* non-null: showTutorial is never true in a state without a user, neither
\* after a logout during the delay of the timer nor after a logout while
\* the overlay is open.
C29_OpenOnlyWhileAuthenticated == tut.showTutorial => user # null

====
